---- MODULE Spec2Model ----
\* A model of package mo (maybe.go): the generic container Maybe[T], its
\* constructors Just / Nothing / From, the combinators Map / Fmap and the
\* JSON methods UnmarshalJSON / MarshalJSON.
\*
\* Go values are records tagged with their dynamic type (ty).  A pointer
\* carries the address of its cell (addr, 0 for nil) and the cell's content
\* (elem); nothing in the package writes through a pointer, so a cell's
\* content never changes.  A container is [T, value, valid]: the type
\* argument and the two fields of the struct.
EXTENDS Integers, Sequences, FiniteSets, TLC

VARIABLES m, last, wire

vars == <<m, last, wire>>

\* ---------------------------------------------------------------- bounds
\* ints range over 0..MaxInt
MaxInt == 1
Ints == 0..MaxInt
Strs == {"abc"}
\* the element lists of the slices and arrays of the model
Elems == {<<>>} \cup {<<n>> : n \in Ints}

\* ---------------------------------------------------------------- values
\* the type arguments T the model instantiates Maybe[T] with
Types == {"int", "*int", "any", "[]int"}

IntV(n) == [ty |-> "int", n |-> n]
FltV(n) == [ty |-> "float64", n |-> n]
StrV(s) == [ty |-> "string", s |-> s]
\* the nil interface value (only a value of an interface type)
NilIface == [ty |-> "nil"]
\* (*int)(nil) and a pointer to the cell holding the int n
NilIntPtr == [ty |-> "*int", addr |-> 0]
IntPtr(n) == [ty |-> "*int", addr |-> n + 1, elem |-> IntV(n)]
\* a cell allocated by the decoder: an address no input pointer has
NewIntPtr(n) == [ty |-> "*int", addr |-> MaxInt + 2, elem |-> IntV(n)]
\* (**int)(nil) and a pointer to the cell holding the *int p
NilPtrPtr == [ty |-> "**int", addr |-> 0]
PtrPtr(p) == [ty |-> "**int", addr |-> p.addr + 1, elem |-> p]
\* []int(nil) and a non-nil []int
NilSlice == [ty |-> "[]int", nil |-> TRUE, elems |-> <<>>]
SliceV(e) == [ty |-> "[]int", nil |-> FALSE, elems |-> e]
\* a non-nil []any of float64, as the decoder builds for an array
AnySliceV(e) == [ty |-> "[]any", nil |-> FALSE, elems |-> e]

IntVals == {IntV(n) : n \in Ints}
IntPtrs == {NilIntPtr} \cup {IntPtr(n) : n \in Ints}
PtrPtrs == {NilPtrPtr} \cup {PtrPtr(p) : p \in IntPtrs}
Slices == {NilSlice} \cup {SliceV(e) : e \in Elems}

\* the values a variable of static type T can hold
ValuesOf(T) ==
  CASE T = "int" -> IntVals
    [] T = "*int" -> IntPtrs
    [] T = "[]int" -> Slices
    [] T = "any" -> {NilIface} \cup IntVals \cup {FltV(n) : n \in Ints}
                    \cup {StrV(s) : s \in Strs} \cup IntPtrs \cup PtrPtrs
                    \cup Slices \cup {AnySliceV(e) : e \in Elems}

\* the zero value of T
Zero(T) ==
  CASE T = "int" -> IntV(0)
    [] T = "*int" -> NilIntPtr
    [] T = "[]int" -> NilSlice
    [] T = "any" -> NilIface

\* reflect.ValueOf(v).Kind(): v travels as an interface value, so a nil
\* interface has kind Invalid and a pointer of any depth has kind Ptr
Kind(v) ==
  CASE v.ty = "nil" -> "invalid"
    [] v.ty \in {"*int", "**int"} -> "ptr"
    [] v.ty \in {"[]int", "[]any"} -> "slice"
    [] OTHER -> v.ty

\* rv.IsNil() of a pointer
IsNil(v) == v.addr = 0

\* whether the type assertion x.(T) succeeds, x the content of a cell: an
\* interface T takes every non-nil dynamic value, a concrete T only its own
AssertsTo(T, x) ==
  IF T = "any" THEN x.ty # "nil" ELSE x.ty = T

\* ------------------------------------------------------------ containers
Ok(c) == [status |-> "ok", ret |-> c]
Panic == [status |-> "panic"]

HasValue(c) == c.valid

Value(c) == c.value

Nothing(T) == [T |-> T, value |-> Zero(T), valid |-> FALSE]

\* Just without the nil check: a nil pointer is wrapped as a present value
Just_NoNilCheck(T, v) ==
  IF Kind(v) = "ptr" /\ ~IsNil(v)
  THEN IF AssertsTo(T, v.elem)
       THEN Ok([T |-> T, value |-> v.elem, valid |-> TRUE])
       ELSE Panic
  ELSE Ok([T |-> T, value |-> v, valid |-> TRUE])

Just(T, v) ==
  IF Kind(v) = "ptr"
  THEN IF IsNil(v)
       THEN Ok(Nothing(T))
       ELSE IF AssertsTo(T, v.elem)
            THEN Ok([T |-> T, value |-> v.elem, valid |-> TRUE])
            ELSE Panic
  ELSE Ok([T |-> T, value |-> v, valid |-> TRUE])

\* From that never looks at the flags
From_IgnoresOk(T, val, ok) ==
  Just(T, val)

\* ok is the variadic flag list, a sequence of booleans
From(T, val, ok) ==
  IF Len(ok) > 0 /\ ~ok[1]
  THEN Ok(Nothing(T))
  ELSE IF Kind(val) = "ptr"
       THEN IF IsNil(val)
            THEN Ok(Nothing(T))
            ELSE IF AssertsTo(T, val.elem)
                 THEN Ok([T |-> T, value |-> val.elem, valid |-> TRUE])
                 ELSE Panic
       ELSE Just(T, val)

\* ------------------------------------------------------------------ JSON
\* a JSON text: the literal null, a number, a string, an array of numbers,
\* or bytes that are not JSON at all
JNull == [j |-> "null"]
JBad == [j |-> "bad"]
JNum(n) == [j |-> "num", n |-> n]
JStr(s) == [j |-> "str", s |-> s]
JArr(e) == [j |-> "arr", elems |-> e]

JSONTexts == {JNull, JBad} \cup {JNum(n) : n \in Ints}
             \cup {JStr(s) : s \in Strs} \cup {JArr(e) : e \in Elems}

\* json.Marshal of a value: pointers are followed, and a nil pointer, a nil
\* interface and a nil slice all encode as null
RECURSIVE jsonMarshal(_)
jsonMarshal(v) ==
  CASE v.ty = "nil" -> JNull
    [] v.ty \in {"int", "float64"} -> JNum(v.n)
    [] v.ty = "string" -> JStr(v.s)
    [] v.ty \in {"*int", "**int"} ->
         IF v.addr = 0 THEN JNull ELSE jsonMarshal(v.elem)
    [] v.ty \in {"[]int", "[]any"} ->
         IF v.nil THEN JNull ELSE JArr(v.elems)

\* the decoder filling a new(T) from a literal that is not null
jsonDecode(T, data) ==
  CASE T = "int" /\ data.j = "num" -> [err |-> FALSE, v |-> IntV(data.n)]
    [] T = "*int" /\ data.j = "num" -> [err |-> FALSE, v |-> NewIntPtr(data.n)]
    [] T = "[]int" /\ data.j = "arr" -> [err |-> FALSE, v |-> SliceV(data.elems)]
    [] T = "any" /\ data.j = "num" -> [err |-> FALSE, v |-> FltV(data.n)]
    [] T = "any" /\ data.j = "str" -> [err |-> FALSE, v |-> StrV(data.s)]
    [] T = "any" /\ data.j = "arr" -> [err |-> FALSE, v |-> AnySliceV(data.elems)]
    [] OTHER -> [err |-> TRUE]

\* json.Unmarshal(data, &t) with var t *T: null leaves t nil, any other
\* literal makes t point to a new T holding the decoded value
jsonUnmarshal(T, data) ==
  IF data.j = "bad"
  THEN [err |-> TRUE]
  ELSE IF data.j = "null"
       THEN [err |-> FALSE, nil |-> TRUE]
       ELSE LET d == jsonDecode(T, data)
            IN IF d.err THEN [err |-> TRUE]
               ELSE [err |-> FALSE, nil |-> FALSE, elem |-> d.v]

\* UnmarshalJSON that clears the receiver before it decodes
UnmarshalJSON_ResetsFirst(c, data) ==
  LET t == jsonUnmarshal(c.T, data)
  IN IF t.err
     THEN [status |-> "err", m |-> Nothing(c.T)]
     ELSE IF ~t.nil
          THEN LET j == Just(c.T, t.elem)
               IN IF j.status = "panic"
                  THEN [status |-> "panic", m |-> c]
                  ELSE [status |-> "ok", m |-> j.ret]
          ELSE [status |-> "ok", m |-> c]

\* UnmarshalJSON that answers null by clearing the flag and keeping the value
UnmarshalJSON_ClearsFlagOnly(c, data) ==
  LET t == jsonUnmarshal(c.T, data)
  IN IF t.err
     THEN [status |-> "err", m |-> c]
     ELSE IF ~t.nil
          THEN LET j == Just(c.T, t.elem)
               IN IF j.status = "panic"
                  THEN [status |-> "panic", m |-> c]
                  ELSE [status |-> "ok", m |-> j.ret]
          ELSE [status |-> "ok", m |-> [c EXCEPT !.valid = FALSE]]

\* the method on receiver c: the status and the receiver afterwards
UnmarshalJSON(c, data) ==
  LET t == jsonUnmarshal(c.T, data)
  IN IF t.err
     THEN [status |-> "err", m |-> c]
     ELSE IF ~t.nil
          THEN LET j == Just(c.T, t.elem)
               IN IF j.status = "panic"
                  THEN [status |-> "panic", m |-> c]
                  ELSE [status |-> "ok", m |-> j.ret]
          ELSE [status |-> "ok", m |-> c]

\* MarshalJSON that encodes the stored value whatever the flag says
MarshalJSON_AlwaysValue(c) ==
  jsonMarshal(c.value)

MarshalJSON(c) ==
  IF c.valid THEN jsonMarshal(c.value) ELSE JNull

\* ------------------------------------------------------------- functions
\* the pure functions handed to Map, by name, with their types A -> B
Fns ==
  {[name |-> "id", A |-> T, B |-> T] : T \in Types} \cup
  { [name |-> "succ", A |-> "int", B |-> "int"],
    [name |-> "ref", A |-> "int", B |-> "*int"],
    [name |-> "find", A |-> "int", B |-> "*int"],
    [name |-> "orZero", A |-> "*int", B |-> "int"],
    [name |-> "box", A |-> "int", B |-> "any"],
    [name |-> "boxFind", A |-> "int", B |-> "any"],
    [name |-> "boxRef", A |-> "int", B |-> "any"],
    [name |-> "unbox", A |-> "any", B |-> "int"],
    [name |-> "len", A |-> "[]int", B |-> "int"] }

\* find: a lookup that returns nil for 0 and a pointer to n otherwise
Find(n) == IF n = 0 THEN NilIntPtr ELSE IntPtr(n)

Call(f, v) ==
  CASE f.name = "id" -> v
    [] f.name = "succ" -> IntV((v.n + 1) % (MaxInt + 1))
    [] f.name = "ref" -> IntPtr(v.n)
    [] f.name = "find" -> Find(v.n)
    [] f.name = "orZero" -> IF v.addr = 0 THEN IntV(0) ELSE v.elem
    [] f.name = "box" -> v
    [] f.name = "boxFind" -> Find(v.n)
    [] f.name = "boxRef" -> PtrPtr(Find(v.n))
    [] f.name = "unbox" ->
         IF v.ty = "int" THEN v
         ELSE IF v.ty = "*int" /\ v.addr # 0 THEN v.elem
         ELSE IntV(0)
    [] f.name = "len" -> IntV(Len(v.elems) % (MaxInt + 1))

\* a function given to Map is one of Fns or the composition of two: <<f>>
\* is f and <<f, g>> is g after f
Pipes == {<<f>> : f \in Fns} \cup
         {p \in {<<f, g>> : f \in Fns, g \in Fns} : p[2].A = p[1].B}

Dom(fs) == fs[1].A
Cod(fs) == fs[Len(fs)].B

CallPipe(fs, v) ==
  IF Len(fs) = 1 THEN Call(fs[1], v) ELSE Call(fs[2], Call(fs[1], v))

\* Map(f)(c)
Map(fs, c) ==
  IF c.valid
  THEN Just(Cod(fs), CallPipe(fs, c.value))
  ELSE Ok(Nothing(Cod(fs)))

\* the functions A -> Maybe[B] handed to Fmap: v |-> Just(f(v)),
\* v |-> From(f(v), false) and v |-> Nothing[B]()
Kleislis ==
  {[kind |-> "just", fs |-> <<f>>] : f \in Fns} \cup
  {[kind |-> "from", fs |-> <<f>>] : f \in Fns} \cup
  {[kind |-> "nothing", fs |-> <<f>>] : f \in Fns}

CallM(k, v) ==
  CASE k.kind = "just" -> Just(Cod(k.fs), CallPipe(k.fs, v))
    [] k.kind = "from" -> From(Cod(k.fs), CallPipe(k.fs, v), <<v.ty # "int" \/ v.n # 0>>)
    [] k.kind = "nothing" -> Ok(Nothing(Cod(k.fs)))

\* Fmap(f)(c)
Fmap(k, c) ==
  IF c.valid
  THEN CallM(k, c.value)
  ELSE Ok(Nothing(Cod(k.fs)))

\* ---------------------------------------------------------------- state
\* m is the container the program holds, last records the operation that
\* ran last (its inputs, the container before it and how it ended), wire
\* holds the bytes MarshalJSON produced last and the container they encode
Init ==
  /\ m \in {Nothing(T) : T \in Types}
  /\ last = [op |-> "init"]
  /\ wire = [set |-> FALSE]

DoNothing ==
  \E T \in Types :
    /\ m' = Nothing(T)
    /\ last' = [op |-> "Nothing", T |-> T, status |-> "ok"]
    /\ UNCHANGED wire

\* a call that panics leaves the program's container as it was
DoJust ==
  \E T \in Types : \E v \in ValuesOf(T) :
    LET r == Just(T, v)
    IN /\ m' = IF r.status = "ok" THEN r.ret ELSE m
       /\ last' = [op |-> "Just", T |-> T, v |-> v, status |-> r.status]
       /\ UNCHANGED wire

DoFrom ==
  \E T \in Types : \E v \in ValuesOf(T) : \E ok \in {<<>>, <<TRUE>>, <<FALSE>>, <<TRUE, FALSE>>, <<FALSE, TRUE>>} :
    LET r == From(T, v, ok)
    IN /\ m' = IF r.status = "ok" THEN r.ret ELSE m
       /\ last' = [op |-> "From", T |-> T, v |-> v, ok |-> ok, status |-> r.status]
       /\ UNCHANGED wire

DoMap ==
  \E fs \in Pipes :
    /\ Dom(fs) = m.T
    /\ LET r == Map(fs, m)
       IN /\ m' = IF r.status = "ok" THEN r.ret ELSE m
          /\ last' = [op |-> "Map", fs |-> fs, pre |-> m, status |-> r.status]
    /\ UNCHANGED wire

DoFmap ==
  \E k \in Kleislis :
    /\ Dom(k.fs) = m.T
    /\ LET r == Fmap(k, m)
       IN /\ m' = IF r.status = "ok" THEN r.ret ELSE m
          /\ last' = [op |-> "Fmap", k |-> k, pre |-> m, status |-> r.status]
    /\ UNCHANGED wire

\* m.UnmarshalJSON(data) on the container the program holds
DoUnmarshalJSON ==
  \E data \in JSONTexts :
    LET r == UnmarshalJSON(m, data)
    IN /\ m' = r.m
       /\ last' = [op |-> "UnmarshalJSON", data |-> data, pre |-> m, status |-> r.status]
       /\ UNCHANGED wire

DoMarshalJSON ==
  /\ wire' = [set |-> TRUE, data |-> MarshalJSON(m), src |-> m]
  /\ last' = [op |-> "MarshalJSON", pre |-> m, status |-> "ok"]
  /\ UNCHANGED m

\* var fresh Maybe[T]; fresh.UnmarshalJSON(wire): the bytes produced last are
\* decoded into a zero-valued container, which the program then holds
DoDecodeWire ==
  /\ wire.set
  /\ LET r == UnmarshalJSON(Nothing(wire.src.T), wire.data)
     IN /\ m' = r.m
        /\ last' = [op |-> "DecodeWire", data |-> wire.data, src |-> wire.src,
                    pre |-> Nothing(wire.src.T), status |-> r.status]
  /\ UNCHANGED wire

Next ==
  \/ DoNothing
  \/ DoJust
  \/ DoFrom
  \/ DoMap
  \/ DoFmap
  \/ DoUnmarshalJSON
  \/ DoMarshalJSON
  \/ DoDecodeWire

Spec == Init /\ [][Next]_vars

\* ---------------------------------------------------------------- claims
IsNilPointer(v) == Kind(v) = "ptr" /\ IsNil(v)

\* C1: after UnmarshalJSON of the literal null returns no error the receiver
\* is Absent, whatever it held before.
C1_NullDecodesToAbsent ==
  (last.op = "UnmarshalJSON" /\ last.data = JNull /\ last.status = "ok")
    => ~HasValue(m)

\* C2: for every v that is not a nil pointer, Just(v) returns without
\* failing a container with HasValue() true and Value() equal to v.
C2_JustHoldsValue ==
  (last.op = "Just" /\ ~IsNilPointer(last.v))
    => (last.status = "ok" /\ HasValue(m) /\ Value(m) = last.v)

\* a literal no T can be decoded from
MalformedFor(T, data) ==
  \/ data.j = "bad"
  \/ T \in {"int", "*int"} /\ data.j \in {"str", "arr"}
  \/ T = "[]int" /\ data.j \in {"num", "str"}

\* C3: UnmarshalJSON of a literal malformed for T returns an error and
\* leaves the receiver's flag and value exactly as they were.
C3_MalformedLeavesReceiver ==
  (last.op = "UnmarshalJSON" /\ MalformedFor(last.pre.T, last.data))
    => (last.status = "err" /\ m = last.pre)

C3_Witness ==
  /\ last.op = "UnmarshalJSON"
  /\ last.pre.T = "int" /\ last.pre.valid /\ last.pre.value = IntV(1)
  /\ last.data \in {JStr(s) : s \in Strs}
  /\ last.status = "err"

\* C4: Just(v), From(v) and From(v, true) with a nil pointer v return a
\* container equal to Nothing[T](): flag false, value the zero value of T.
C4_NilPointerCollapses ==
  (/\ last.op \in {"Just", "From"}
   /\ IsNilPointer(last.v)
   /\ (last.op = "From" => (last.ok = <<>> \/ last.ok[1])))
    => (last.status = "ok" /\ m = Nothing(last.T) /\ ~HasValue(m)
        /\ Value(m) = Zero(last.T))

C4_Witness ==
  /\ last.op = "Just" /\ last.T = "any" /\ last.v = NilIntPtr
  /\ m = Nothing("any")

\* C5: From(v, ok...) equals Nothing[T]() when a first flag is given and is
\* false, whatever v is, and otherwise ends as Just(v) ends.
C5_FromFollowsFlag ==
  last.op = "From"
    => IF Len(last.ok) > 0 /\ ~last.ok[1]
       THEN last.status = "ok" /\ m = Nothing(last.T)
       ELSE LET j == Just(last.T, last.v)
            IN /\ last.status = j.status
               /\ (j.status = "ok" => m = j.ret)

C5_Witness ==
  /\ last.op = "From" /\ last.ok = <<FALSE, TRUE>>
  /\ last.v = PtrPtr(IntPtr(1))
  /\ m = Nothing("any")

\* C6: no reachable container has the flag false together with a stored
\* value other than the zero value of T.
C6_AbsentHoldsZero ==
  ~HasValue(m) => Value(m) = Zero(m.T)

C6_Witness ==
  /\ last.op = "Map" /\ last.status = "ok" /\ last.pre.valid
  /\ ~HasValue(m) /\ m.T = "any"

\* json.Unmarshal(data, &x) with var x T: the encoding/json decoder on a
\* zero-valued x (null leaves an int alone and sets the rest to nil)
DecodeInto(T, data) ==
  IF data.j = "bad" THEN [err |-> TRUE]
  ELSE IF data.j = "null" THEN [err |-> FALSE, v |-> Zero(T)]
  ELSE jsonDecode(T, data)

\* v's own encoding is lossless: decoding json.Marshal(v) into a T gives v
Lossless(T, v) ==
  DecodeInto(T, jsonMarshal(v)) = [err |-> FALSE, v |-> v]

C8_MapIdentity ==
  (last.op = "Map" /\ Len(last.fs) = 1 /\ last.fs[1].name = "id")
    => (last.status = "ok" /\ m = last.pre)

\* C9: Map(g after f)(c) ends as Map(g)(Map(f)(c)) ends, also for an f that
\* returns a nil pointer.
C9_MapComposition ==
  (last.op = "Map" /\ Len(last.fs) = 2)
    => LET one == Map(<<last.fs[1]>>, last.pre)
           two == IF one.status = "ok" THEN Map(<<last.fs[2]>>, one.ret) ELSE one
       IN /\ last.status = two.status
          /\ (last.status = "ok" => m = two.ret)

\* C10: Fmap(f)(Just(v)) equals f(v) for every v, a nil pointer included.
C10_LeftIdentity ==
  last.op = "Fmap"
    => \A v \in ValuesOf(last.pre.T) :
         Just(last.pre.T, v) = Ok(last.pre)
           => LET r == CallM(last.k, v)
              IN /\ last.status = r.status
                 /\ (r.status = "ok" => m = r.ret)

TypeOK == m.T \in Types /\ m.valid \in BOOLEAN
====
